---- MODULE Spec2Model ----
(***************************************************************************)
(* scripts/consolidate-templates.py: five loaders normalise template rows  *)
(* into all_templates, a detection pass records title and content          *)
(* collisions, a dedup pass keeps the best-scored record per trimmed       *)
(* title, the result is sorted by (category, title) and written out.       *)
(*                                                                         *)
(* Text is a sequence of one-character strings.  A Python value is a       *)
(* record [t, s, n, l]: t is the type tag, s the text of a str, n the      *)
(* value of an int, l the items of a list of str.  "absent" stands for a   *)
(* key that is not in the row's dict.                                      *)
(***************************************************************************)
EXTENDS Integers, Sequences, FiniteSets, TLC

\* Largest number of rows and items the five source files hold together.
MaxRecords == 4

\* content[:200]
PrefixLen == 200

-----------------------------------------------------------------------------
(* Python values *)

PyStr(s) == [t |-> "str", s |-> s, n |-> 0, l |-> <<>>]
PyInt(n) == [t |-> "int", s |-> <<>>, n |-> n, l |-> <<>>]
PyList(l) == [t |-> "list", s |-> <<>>, n |-> 0, l |-> l]
PyNone == [t |-> "none", s |-> <<>>, n |-> 0, l |-> <<>>]
Absent == [t |-> "absent", s |-> <<>>, n |-> 0, l |-> <<>>]

Fields == {"title", "content", "format", "tags", "category",
           "authorEmail", "visibility", "viewCount", "useCount"}
TextFields == Fields \ {"viewCount", "useCount"}
CountFields == {"viewCount", "useCount"}

\* dict.get(key, default)
Get(row, key, default) == IF row[key].t = "absent" THEN default ELSE row[key]

\* bool(v), as used by "if row.get('viewCount')"
Truthy(v) ==
    CASE v.t = "str" -> v.s # <<>>
      [] v.t = "int" -> v.n # 0
      [] v.t = "list" -> v.l # <<>>
      [] OTHER -> FALSE

IsSpace(c) == c \in {" ", "\t", "\n"}

RECURSIVE LStrip(_)
LStrip(s) == IF s = <<>> THEN s
             ELSE IF IsSpace(Head(s)) THEN LStrip(Tail(s)) ELSE s

RECURSIVE RStrip(_)
RStrip(s) == IF s = <<>> THEN s
             ELSE IF IsSpace(s[Len(s)]) THEN RStrip(SubSeq(s, 1, Len(s) - 1)) ELSE s

\* str.strip()
Strip(s) == RStrip(LStrip(s))

Digits == {"0", "1", "2", "3", "4", "5", "6", "7", "8", "9"}

DigitVal(c) ==
    CASE c = "0" -> 0 [] c = "1" -> 1 [] c = "2" -> 2 [] c = "3" -> 3
      [] c = "4" -> 4 [] c = "5" -> 5 [] c = "6" -> 6 [] c = "7" -> 7
      [] c = "8" -> 8 [] c = "9" -> 9

RECURSIVE DecimalVal(_)
DecimalVal(s) == IF s = <<>> THEN 0
                 ELSE 10 * DecimalVal(SubSeq(s, 1, Len(s) - 1)) + DigitVal(s[Len(s)])

\* int(text): surrounding whitespace, an optional sign, then decimal digits
ParseInt(s) ==
    LET body == Strip(s)
        signed == body # <<>> /\ Head(body) \in {"+", "-"}
        digits == IF signed THEN Tail(body) ELSE body
    IN  IF digits # <<>> /\ \A k \in 1..Len(digits) : digits[k] \in Digits
        THEN [err |-> "none",
              n |-> IF signed /\ Head(body) = "-" THEN 0 - DecimalVal(digits)
                    ELSE DecimalVal(digits)]
        ELSE [err |-> "ValueError", n |-> 0]

\* int(v)
ToInt(v) ==
    CASE v.t = "int" -> [err |-> "none", n |-> v.n]
      [] v.t = "str" -> ParseInt(v.s)
      [] OTHER -> [err |-> "TypeError", n |-> 0]

RECURSIVE Join(_, _)
\* sep.join(list)
Join(sep, l) == IF l = <<>> THEN <<>>
                ELSE IF Len(l) = 1 THEN l[1]
                ELSE l[1] \o sep \o Join(sep, Tail(l))

-----------------------------------------------------------------------------
(* Loaders: one template per source row or item *)

\* int(row.get(key, 0))
Count(row, key) == ToInt(Get(row, key, PyInt(0)))

\* int(row.get(key, 0)) if row.get(key) else 0
GuardedCount(row, key) ==
    IF Truthy(Get(row, key, PyNone)) THEN ToInt(Get(row, key, PyInt(0)))
    ELSE [err |-> "none", n |-> 0]

\* tags = item.get('tags', []); a list is joined with ','
FlatTags(item) ==
    LET tags == Get(item, "tags", PyList(<<>>))
    IN  IF tags.t = "list" THEN PyStr(Join(<<",">>, tags.l)) ELSE tags

\* The dict literal: counts are converted in field order, the first failure raises.
Built(row, format, tags, viewCount, useCount) ==
    [err |-> IF viewCount.err # "none" THEN viewCount.err ELSE useCount.err,
     t |-> [title |-> Get(row, "title", PyStr(<<>>)),
            content |-> Get(row, "content", PyStr(<<>>)),
            format |-> format,
            tags |-> tags,
            category |-> Get(row, "category", PyStr(<<>>)),
            authorEmail |-> Get(row, "authorEmail", PyStr(<<>>)),
            visibility |-> Get(row, "visibility", PyStr(<<>>)),
            viewCount |-> PyInt(viewCount.n),
            useCount |-> PyInt(useCount.n)]]

Html == <<"h", "t", "m", "l">>
Plain == <<"p", "l", "a", "i", "n">>

sample_csv_template(row) ==
    Built(row, PyStr(Html), Get(row, "tags", PyStr(<<>>)),
          Count(row, "viewCount"), Count(row, "useCount"))

sample_json_template(item) ==
    Built(item, PyStr(Html), FlatTags(item),
          Count(item, "viewCount"), Count(item, "useCount"))

plaintext_csv_template(row) ==
    Built(row, Get(row, "format", PyStr(Plain)), Get(row, "tags", PyStr(<<>>)),
          GuardedCount(row, "viewCount"), GuardedCount(row, "useCount"))

plaintext_json_template(item) ==
    Built(item, Get(item, "format", PyStr(Plain)), FlatTags(item),
          Count(item, "viewCount"), Count(item, "useCount"))

analyzed_csv_template(row) ==
    Built(row, Get(row, "format", PyStr(Plain)), Get(row, "tags", PyStr(<<>>)),
          GuardedCount(row, "viewCount"), GuardedCount(row, "useCount"))

Sources == <<"sample_csv", "sample_json", "plaintext_csv", "plaintext_json",
             "analyzed_csv">>
SourceSet == {Sources[k] : k \in 1..Len(Sources)}
CsvSources == {"sample_csv", "plaintext_csv", "analyzed_csv"}
JsonSources == {"sample_json", "plaintext_json"}

Template(src, row) ==
    CASE src = "sample_csv" -> sample_csv_template(row)
      [] src = "sample_json" -> sample_json_template(row)
      [] src = "plaintext_csv" -> plaintext_csv_template(row)
      [] src = "plaintext_json" -> plaintext_json_template(row)
      [] src = "analyzed_csv" -> analyzed_csv_template(row)

\* The format a loader gives a row that carries none.
DefaultFormat(src) ==
    IF src \in {"sample_csv", "sample_json"} THEN PyStr(Html) ELSE PyStr(Plain)

-----------------------------------------------------------------------------
(* The rows and items the source files may hold *)

X200 == SubSeq([k \in 1..PrefixLen |-> "x"], 1, PrefixLen)

\* A CSV row: csv.DictReader gives a str per cell, None for a cell a short
\* row lacks, and no key for a column the header lacks.
CsvRow(title, content, category, viewCount, useCount, other) ==
    [k \in Fields |->
        CASE k = "title" -> title
          [] k = "content" -> content
          [] k = "category" -> category
          [] k = "viewCount" -> viewCount
          [] k = "useCount" -> useCount
          [] OTHER -> other]

\* A JSON object: format, authorEmail and visibility are not given.
JsonItem(title, content, category, viewCount, useCount, tags) ==
    [k \in Fields |->
        CASE k = "title" -> title
          [] k = "content" -> content
          [] k = "category" -> category
          [] k = "viewCount" -> viewCount
          [] k = "useCount" -> useCount
          [] k = "tags" -> tags
          [] OTHER -> Absent]

EmptyRow == [k \in Fields |-> Absent]

SampleCsvRows ==
    { CsvRow(PyStr(<<"A">>), PyStr(<<"h", "i">>), PyStr(<<"b">>),
             PyStr(<<"5">>), PyStr(<<"0">>), PyStr(<<"x">>)),
      EmptyRow,
      CsvRow(PyStr(<<"B">>), PyStr(<<"h", "i">>), PyStr(<<"a">>),
             PyStr(<<>>), PyStr(<<"1">>), PyStr(<<>>)),
      CsvRow(PyStr(<<"C">>), PyStr(<<" ", "h", "i">>), PyStr(<<"a">>),
             PyStr(<<"-", "5">>), PyStr(<<"2">>), PyStr(<<"x">>)),
      CsvRow(PyStr(<<"A">>), PyStr(<<"h", "i">>), PyNone, PyNone, PyNone, PyNone) }

SampleJsonItems ==
    { JsonItem(PyStr(<<" ", "A">>), PyStr(<<"h", "i", " ">>), PyStr(<<"a">>),
               PyInt(3), PyInt(2), PyList(<< <<"x">>, <<"y">> >>)),
      EmptyRow,
      JsonItem(PyStr(<<"C">>), PyStr(<<"h", "i">>), PyStr(<<"a">>),
               PyStr(<<"1", "x">>), PyInt(0), PyStr(<<"x">>)),
      JsonItem(PyStr(<<"C">>), PyStr(<<"h", "i">>), PyStr(<<"a">>),
               PyInt(1), PyNone, Absent) }

PlaintextCsvRows ==
    { CsvRow(PyStr(<<"B">>), PyStr(X200 \o <<"y">>), PyStr(<<"a">>),
             PyStr(<<"1">>), PyStr(<<>>), PyStr(<<>>)),
      CsvRow(PyStr(<<"B", " ">>), PyStr(<<"h", "i">>), PyNone, PyNone, PyNone, PyNone) }

PlaintextJsonItems ==
    { JsonItem(PyStr(<<"B">>), PyStr(X200 \o <<"z">>), PyStr(<<"a">>),
               PyInt(7), PyInt(0), PyStr(<<"x", ",", "y">>)),
      JsonItem(PyStr(<<"A">>), PyStr(<<"h", "i">>), PyStr(<<"b">>),
               PyInt(-1), PyInt(0), Absent) }

AnalyzedCsvRows ==
    { CsvRow(PyStr(<<"A">>), PyStr(<<"h", "i">>), PyStr(<<"a">>),
             PyStr(<<"1", "2">>), PyStr(<<"0">>), PyStr(<<"x">>)),
      CsvRow(PyStr(<<"D">>), PyStr(<<" ", "h", "i">>), PyStr(<<"b">>),
             PyStr(<<" ", "7", " ">>), Absent, Absent) }

Rows(src) ==
    CASE src = "sample_csv" -> SampleCsvRows
      [] src = "sample_json" -> SampleJsonItems
      [] src = "plaintext_csv" -> PlaintextCsvRows
      [] src = "plaintext_json" -> PlaintextJsonItems
      [] src = "analyzed_csv" -> AnalyzedCsvRows

-----------------------------------------------------------------------------
(* State *)

VARIABLES
    pc,                \* the stage the script is in
    error,             \* the uncaught exception, and the stage that raised it
    f,                 \* the source file open for reading, or "closed"
    line_num,          \* rows or items read from the open file
    loaded,            \* the source files read to their end and closed
    row,               \* row (CSV) or item (JSON) read last
    template,          \* template built last
    all_templates,
    seen_titles,
    seen_content,
    duplicates,
    unique_templates,  \* references into all_templates, as 0-based indices
    processed,
    i,                 \* index of the enumerate loops
    opened,            \* output files opened for writing
    csv_rows,          \* rows handed to csv.DictWriter.writerows
    json_dumped,       \* list handed to json.dump
    report_dumped      \* duplicates as handed to json.dump

vars == <<pc, error, f, line_num, loaded, row, template, all_templates,
          seen_titles, seen_content, duplicates, unique_templates, processed,
          i, opened, csv_rows, json_dumped, report_dumped>>

NoError == [type |-> "none", stage |-> "none"]

Init ==
    /\ pc = Sources[1]
    /\ error = NoError
    /\ f = "closed"
    /\ line_num = 0
    /\ loaded = {}
    /\ row = EmptyRow
    /\ template = EmptyRow
    /\ all_templates = <<>>
    /\ seen_titles = <<>>
    /\ seen_content = <<>>
    /\ duplicates = [titles |-> <<>>, content |-> <<>>]
    /\ unique_templates = <<>>
    /\ processed = {}
    /\ i = 0
    /\ opened = {}
    /\ csv_rows = <<>>
    /\ json_dumped = <<>>
    /\ report_dumped = [titles |-> <<>>, content |-> <<>>]

\* all_templates[k] for a Python index k
At(k) == all_templates[k + 1]

\* A script that carries on after an exception, as under a bare except.
NeverTerminated == FALSE

\* An uncaught exception ends the script: no statement after it runs.
Terminated == error.type # "none"

Raise(type) == error' = [type |-> type, stage |-> pc]

\* The statement order of the script.
NextStage(stage) ==
    CASE stage = "sample_csv" -> "sample_json"
      [] stage = "sample_json" -> "plaintext_csv"
      [] stage = "plaintext_csv" -> "plaintext_json"
      [] stage = "plaintext_json" -> "analyzed_csv"
      [] stage = "analyzed_csv" -> "detect"
      [] stage = "detect" -> "dedup"
      [] stage = "dedup" -> "sort"
      [] stage = "sort" -> "write_csv"
      [] stage = "write_csv" -> "write_json"
      [] stage = "write_json" -> "write_report"
      [] stage = "write_report" -> "done"

-----------------------------------------------------------------------------
(* Loading *)

\* with open(...) as f; for a JSON source also json.load(f)
Open(src) ==
    /\ ~Terminated /\ pc = src /\ f = "closed"
    /\ f' = src
    /\ line_num' = 0
    /\ UNCHANGED <<pc, error, loaded, row, template, all_templates, seen_titles,
                   seen_content, duplicates, unique_templates, processed, i,
                   opened, csv_rows, json_dumped, report_dumped>>

\* The file is missing, or json.load rejects its text.
OpenFail(src) ==
    /\ ~Terminated /\ pc = src /\ f = "closed"
    /\ \E type \in (IF src \in JsonSources
                    THEN {"FileNotFoundError", "JSONDecodeError"}
                    ELSE {"FileNotFoundError"}) : Raise(type)
    /\ UNCHANGED <<pc, f, line_num, loaded, row, template, all_templates,
                   seen_titles, seen_content, duplicates, unique_templates,
                   processed, i, opened, csv_rows, json_dumped, report_dumped>>

\* One pass of the loader's for loop.
ReadRow(src) ==
    /\ ~Terminated /\ pc = src /\ f = src
    /\ Len(all_templates) < MaxRecords
    /\ \E r \in Rows(src) :
          LET built == Template(src, r)
          IN  /\ row' = r
              /\ line_num' = line_num + 1
              /\ IF built.err = "none"
                 THEN /\ template' = built.t
                      /\ all_templates' = Append(all_templates, built.t)
                      /\ UNCHANGED error
                 ELSE /\ Raise(built.err)
                      /\ UNCHANGED <<template, all_templates>>
    /\ UNCHANGED <<pc, f, loaded, seen_titles, seen_content, duplicates,
                   unique_templates, processed, i, opened, csv_rows,
                   json_dumped, report_dumped>>

\* csv.DictReader rejects the next row of the file.
BadCsvRow(src) ==
    /\ ~Terminated /\ pc = src /\ f = src /\ src \in CsvSources
    /\ Raise("csv.Error")
    /\ UNCHANGED <<pc, f, line_num, loaded, row, template, all_templates,
                   seen_titles, seen_content, duplicates, unique_templates,
                   processed, i, opened, csv_rows, json_dumped, report_dumped>>

\* The loop ends and the with block closes the file.
EndOfFile(src) ==
    /\ ~Terminated /\ pc = src /\ f = src
    /\ f' = "closed"
    /\ loaded' = loaded \cup {src}
    /\ pc' = NextStage(src)
    /\ UNCHANGED <<error, line_num, row, template, all_templates, seen_titles,
                   seen_content, duplicates, unique_templates, processed, i,
                   opened, csv_rows, json_dumped, report_dumped>>

-----------------------------------------------------------------------------
(* Duplicate detection *)

\* A detection pass that compares titles as they are, untrimmed.
DetectTitleRaw(t) == t.title.s

\* title = template['title'].strip(), in the detection loop
DetectTitle(t) == Strip(t.title.s)

\* A content key that is never cut to its prefix.
PrefixWhole(content) == content

\* content_key = content[:200] if len(content) > 200 else content
Prefix(content) ==
    IF Len(content) > PrefixLen THEN SubSeq(content, 1, PrefixLen) ELSE content

\* content = template['content'].strip(), then the prefix
ContentKey(t) == Prefix(Strip(t.content.s))

\* A first-seen map that records the latest index instead of the first.
SeenLatest(seen, key, idx) ==
    [x \in DOMAIN seen \cup {key} |-> IF x = key THEN idx ELSE seen[x]]

\* if key in seen: ... else: seen[key] = i
Seen(seen, key, idx) ==
    IF key \in DOMAIN seen THEN seen ELSE seen @@ (key :> idx)

\* One pass of the detection loop, for the record at index i.
DetectStep ==
    /\ ~Terminated /\ pc = "detect" /\ i < Len(all_templates)
    /\ IF At(i).title.t # "str" \/ At(i).content.t # "str"
       THEN /\ Raise("AttributeError")
            /\ UNCHANGED <<seen_titles, seen_content, duplicates, i>>
       ELSE LET title == DetectTitle(At(i))
                content_key == ContentKey(At(i))
            IN  /\ duplicates' =
                      [titles |->
                          IF title \in DOMAIN seen_titles
                          THEN Append(duplicates.titles,
                                      [title |-> title,
                                       indices |-> <<seen_titles[title], i>>])
                          ELSE duplicates.titles,
                       content |->
                          IF content_key \in DOMAIN seen_content
                          THEN Append(duplicates.content,
                                      [title1 |-> At(seen_content[content_key]).title.s,
                                       title2 |-> At(i).title.s,
                                       indices |-> <<seen_content[content_key], i>>])
                          ELSE duplicates.content]
                /\ seen_titles' = Seen(seen_titles, title, i)
                /\ seen_content' = Seen(seen_content, content_key, i)
                /\ i' = i + 1
                /\ UNCHANGED error
    /\ UNCHANGED <<pc, f, line_num, loaded, row, template, all_templates,
                   unique_templates, processed, opened, csv_rows, json_dumped,
                   report_dumped>>

\* The detection loop ends; processed = set()
DetectDone ==
    /\ ~Terminated /\ pc = "detect" /\ i = Len(all_templates)
    /\ pc' = NextStage(pc)
    /\ i' = 0
    /\ processed' = {}
    /\ UNCHANGED <<error, f, line_num, loaded, row, template, all_templates,
                   seen_titles, seen_content, duplicates, unique_templates,
                   opened, csv_rows, json_dumped, report_dumped>>

-----------------------------------------------------------------------------
(* Deduplication *)

\* title = template['title'].strip(), in the dedup loop and its filter
DedupTitle(t) == Strip(t.title.s)

Score(ref) == At(ref).viewCount.n + At(ref).useCount.n

\* same_title = [t for t in all_templates if t['title'].strip() == title]
SameTitle(title) ==
    SelectSeq([k \in 1..Len(all_templates) |-> k - 1],
              LAMBDA ref : DedupTitle(At(ref)) = title)

RECURSIVE MaxFromLast(_, _)
\* A max() that lets a later item win a tie.
MaxFromLast(best, rest) ==
    IF rest = <<>> THEN best
    ELSE MaxFromLast(IF Score(Head(rest)) >= Score(best) THEN Head(rest) ELSE best,
                     Tail(rest))

RECURSIVE MaxFrom(_, _)
\* max(): a later item replaces the best so far only when its key is greater
MaxFrom(best, rest) ==
    IF rest = <<>> THEN best
    ELSE MaxFrom(IF Score(Head(rest)) > Score(best) THEN Head(rest) ELSE best,
                 Tail(rest))

\* A dedup that keeps the first record of a title, whatever its score.
BestFirst(same_title) == Head(same_title)

\* best = max(same_title, key=lambda t: t['viewCount'] + t['useCount'])
Best(same_title) == MaxFrom(Head(same_title), Tail(same_title))

\* A dedup loop that forgets which titles it has handled.
ProcessedNone(done, title) == done

\* processed.add(title)
Processed(done, title) == done \cup {title}

\* One pass of the dedup loop, for the record at index i.
DedupStep ==
    /\ ~Terminated /\ pc = "dedup" /\ i < Len(all_templates)
    /\ LET title == DedupTitle(At(i))
       IN  IF title \notin processed
           THEN /\ unique_templates' = Append(unique_templates, Best(SameTitle(title)))
                /\ processed' = Processed(processed, title)
           ELSE UNCHANGED <<unique_templates, processed>>
    /\ i' = i + 1
    /\ UNCHANGED <<pc, error, f, line_num, loaded, row, template, all_templates,
                   seen_titles, seen_content, duplicates, opened, csv_rows,
                   json_dumped, report_dumped>>

\* The dedup loop ends; the duplicates are printed.
DedupDone ==
    /\ ~Terminated /\ pc = "dedup" /\ i = Len(all_templates)
    /\ pc' = NextStage(pc)
    /\ UNCHANGED <<error, f, line_num, loaded, row, template, all_templates,
                   seen_titles, seen_content, duplicates, unique_templates,
                   processed, i, opened, csv_rows, json_dumped, report_dumped>>

-----------------------------------------------------------------------------
(* Sorting *)

\* ord(c)
Ord(c) ==
    CASE c = "\t" -> 9 [] c = "\n" -> 10 [] c = " " -> 32 [] c = "+" -> 43
      [] c = "," -> 44 [] c = "-" -> 45 [] c \in Digits -> 48 + DigitVal(c)
      [] c = "A" -> 65 [] c = "B" -> 66 [] c = "C" -> 67 [] c = "D" -> 68
      [] c = "a" -> 97 [] c = "b" -> 98 [] c = "h" -> 104 [] c = "i" -> 105
      [] c = "l" -> 108 [] c = "m" -> 109 [] c = "n" -> 110 [] c = "p" -> 112
      [] c = "t" -> 116 [] c = "x" -> 120 [] c = "y" -> 121 [] c = "z" -> 122

RECURSIVE StrLess(_, _)
\* s < t for two str: by code point, a proper prefix first
StrLess(s, t) ==
    IF t = <<>> THEN FALSE
    ELSE IF s = <<>> THEN TRUE
    ELSE IF Head(s) = Head(t) THEN StrLess(Tail(s), Tail(t))
    ELSE Ord(Head(s)) < Ord(Head(t))

\* A sort key that is the category alone.
KeyLessCategory(a, b) == StrLess(At(a).category.s, At(b).category.s)

\* key(a) < key(b) for key = (category, title): the first differing item decides
KeyLess(a, b) ==
    IF At(a).category # At(b).category
    THEN StrLess(At(a).category.s, At(b).category.s)
    ELSE StrLess(At(a).title.s, At(b).title.s)

\* '<' between a str and None raises TypeError.  A sort of two or more
\* records compares every record with another one, so it raises exactly
\* when the categories are not all str or all None.
SortRaises(refs) ==
    \E a, b \in 1..Len(refs) : At(refs[a]).category.t # At(refs[b]).category.t

RECURSIVE Insert(_, _)
Insert(sorted, ref) ==
    IF sorted = <<>> THEN <<ref>>
    ELSE IF KeyLess(ref, Head(sorted)) THEN <<ref>> \o sorted
    ELSE <<Head(sorted)>> \o Insert(Tail(sorted), ref)

RECURSIVE Sorted(_)
\* list.sort(key=...): ascending and stable
Sorted(refs) ==
    IF refs = <<>> THEN <<>>
    ELSE Insert(Sorted(SubSeq(refs, 1, Len(refs) - 1)), refs[Len(refs)])

\* unique_templates.sort(key=lambda t: (t['category'], t['title']))
Sort ==
    /\ ~Terminated /\ pc = "sort"
    /\ IF SortRaises(unique_templates)
       THEN /\ Raise("TypeError")
            /\ UNCHANGED <<pc, unique_templates>>
       ELSE /\ unique_templates' = Sorted(unique_templates)
            /\ pc' = NextStage(pc)
            /\ UNCHANGED error
    /\ UNCHANGED <<f, line_num, loaded, row, template, all_templates,
                   seen_titles, seen_content, duplicates, processed, i, opened,
                   csv_rows, json_dumped, report_dumped>>

-----------------------------------------------------------------------------
(* Writing *)

Records(refs) == [k \in 1..Len(refs) |-> At(refs[k])]

WriteCsv ==
    /\ ~Terminated /\ pc = "write_csv"
    /\ opened' = opened \cup {"consolidated-templates.csv"}
    /\ csv_rows' = Records(unique_templates)
    /\ pc' = NextStage(pc)
    /\ UNCHANGED <<error, f, line_num, loaded, row, template, all_templates,
                   seen_titles, seen_content, duplicates, unique_templates,
                   processed, i, json_dumped, report_dumped>>

WriteJson ==
    /\ ~Terminated /\ pc = "write_json"
    /\ opened' = opened \cup {"consolidated-templates.json"}
    /\ json_dumped' = Records(unique_templates)
    /\ pc' = NextStage(pc)
    /\ UNCHANGED <<error, f, line_num, loaded, row, template, all_templates,
                   seen_titles, seen_content, duplicates, unique_templates,
                   processed, i, csv_rows, report_dumped>>

WriteReport ==
    /\ ~Terminated /\ pc = "write_report"
    /\ opened' = opened \cup {"duplicates-report.json"}
    /\ report_dumped' = duplicates
    /\ pc' = NextStage(pc)
    /\ UNCHANGED <<error, f, line_num, loaded, row, template, all_templates,
                   seen_titles, seen_content, duplicates, unique_templates,
                   processed, i, csv_rows, json_dumped>>

-----------------------------------------------------------------------------

Next ==
    \/ \E src \in SourceSet : Open(src)
    \/ \E src \in SourceSet : OpenFail(src)
    \/ \E src \in SourceSet : ReadRow(src)
    \/ \E src \in SourceSet : BadCsvRow(src)
    \/ \E src \in SourceSet : EndOfFile(src)
    \/ DetectStep
    \/ DetectDone
    \/ DedupStep
    \/ DedupDone
    \/ Sort
    \/ WriteCsv
    \/ WriteJson
    \/ WriteReport

Spec == Init /\ [][Next]_vars

-----------------------------------------------------------------------------
(* Properties *)

LoadStages == SourceSet
WriteStages == {"write_csv", "write_json", "write_report", "done"}
AfterDedup == pc \in {"sort"} \cup WriteStages

Idx == 0..(Len(all_templates) - 1)
Trimmed(k) == Strip(At(k).title.s)
SameTrimmed(k) == {j \in Idx : Trimmed(j) = Trimmed(k)}
Unique == {unique_templates[p] : p \in 1..Len(unique_templates)}

\* The records the detection loop has gone through.
Scanned ==
    IF pc \in LoadStages THEN {}
    ELSE IF pc = "detect" THEN 0..(i - 1)
    ELSE Idx

First200(s) == IF Len(s) > PrefixLen THEN SubSeq(s, 1, PrefixLen) ELSE s

\* C1: after the dedup pass every trimmed title of the loaded records has a
\* record in unique_templates, and each record kept for a title has the
\* largest viewCount + useCount of all loaded records with that trimmed title.
MaxScoreSelected ==
    AfterDedup =>
        \A k \in Idx :
            /\ \E u \in Unique : Trimmed(u) = Trimmed(k)
            /\ \A u \in Unique :
                  Trimmed(u) = Trimmed(k) =>
                      \A j \in SameTrimmed(k) : Score(j) <= Score(u)

\* A later record of a title outscores an earlier one and is the one kept.
MaxScoreSelectedWitness ==
    /\ AfterDedup
    /\ \E j, k \in Idx :
          /\ j < k /\ Trimmed(j) = Trimmed(k) /\ Score(j) < Score(k)
          /\ k \in Unique

\* C2: after the dedup pass there are at most as many unique records as
\* loaded records, and as many exactly when the trimmed titles of the loaded
\* records are pairwise distinct.
UniqueCount ==
    AfterDedup =>
        /\ Len(unique_templates) <= Len(all_templates)
        /\ (Len(unique_templates) = Len(all_templates))
              <=> (\A j, k \in Idx : j # k => Trimmed(j) # Trimmed(k))

\* Three records, two of them with one trimmed title, leave two unique records.
UniqueCountWitness ==
    /\ AfterDedup
    /\ Len(all_templates) = 3
    /\ Len(unique_templates) = 2

\* C3: every loaded record has a non-negative integer viewCount and useCount.
CountsNonNegative ==
    \A k \in Idx :
        \A c \in CountFields : At(k)[c].t = "int" /\ At(k)[c].n >= 0

\* A field the source leaves out: no key, and for a CSV row also the None of
\* a short row and the empty cell.
Omitted(src, v) ==
    IF src \in CsvSources
    THEN v.t \in {"absent", "none"} \/ v = PyStr(<<>>)
    ELSE v.t = "absent"

\* Every field of the row is left out or holds what the schema expects.
OmissionOnly(src, r) ==
    /\ \A c \in CountFields : Omitted(src, r[c]) \/ ToInt(r[c]).err = "none"
    /\ \A c \in TextFields : Omitted(src, r[c]) \/ r[c].t \in {"str", "list"}

\* C4: a row or item that only leaves fields out loads, and its record has
\* the empty string for each text field left out (for format, the source's
\* default) and the integer 0 for each count left out.
DefaultsOnOmission ==
    (f # "closed" /\ line_num > 0 /\ OmissionOnly(f, row)) =>
        /\ ~Terminated
        /\ \A c \in Fields : template[c].t \in {"str", "int"}
        /\ \A c \in CountFields : Omitted(f, row[c]) => template[c] = PyInt(0)
        /\ \A c \in TextFields \ {"format"} :
              Omitted(f, row[c]) => template[c] = PyStr(<<>>)
        /\ Omitted(f, row.format) => template.format \in {DefaultFormat(f), PyStr(<<>>)}

\* The entries of a collision list whose second index is k.
EntriesFor(list, k) == {p \in 1..Len(list) : list[p].indices[2] = k}

\* C5: each scanned record whose trimmed title an earlier record carries has
\* exactly one "titles" entry, with indices [f, i] for the smallest such f;
\* any other scanned record has none; entries are in index order.
TitleCollisions ==
    /\ \A k \in Scanned :
          LET earlier == {j \in Scanned : j < k /\ Trimmed(j) = Trimmed(k)}
              entries == EntriesFor(duplicates.titles, k)
          IN  IF earlier = {} THEN entries = {}
              ELSE /\ Cardinality(entries) = 1
                   /\ \A p \in entries :
                         /\ duplicates.titles[p].indices[1] \in earlier
                         /\ \A j \in earlier : duplicates.titles[p].indices[1] <= j
    /\ \A p \in 1..Len(duplicates.titles) :
          /\ duplicates.titles[p].indices[2] \in Scanned
          /\ \A q \in 1..(p - 1) :
                duplicates.titles[q].indices[2] < duplicates.titles[p].indices[2]

\* Three records of one trimmed title: the third is reported against the first.
TitleCollisionsWitness ==
    /\ pc = "dedup"
    /\ \E p \in 1..Len(duplicates.titles) : duplicates.titles[p].indices = <<0, 2>>
    /\ Trimmed(1) = Trimmed(2)

\* The content-collision property for a given comparison key of a record.
ContentCollisions(Key(_)) ==
    \A k \in Scanned :
        LET earlier == {j \in Scanned : j < k /\ Key(j) = Key(k)}
            entries == EntriesFor(duplicates.content, k)
        IN  IF earlier = {} THEN entries = {}
            ELSE /\ Cardinality(entries) = 1
                 /\ \A p \in entries :
                       /\ duplicates.content[p].indices[1] \in earlier
                       /\ \A j \in earlier : duplicates.content[p].indices[1] <= j

RawPrefix(k) == First200(At(k).content.s)
TrimmedPrefix(k) == First200(Strip(At(k).content.s))

\* C6 as stated: a record has a "content" entry exactly when the first 200
\* characters of its content equal those of an earlier record's content.
ContentCollisionsRaw == ContentCollisions(RawPrefix)

\* C6: a record has a "content" entry exactly when the first 200 characters
\* of its content, trimmed of surrounding whitespace, equal those of an
\* earlier record's trimmed content; the entry's indices are [f, i] for the
\* earliest such f.
ContentCollisionsTrimmed == ContentCollisions(TrimmedPrefix)

\* Two contents longer than 200 characters that differ after a common prefix
\* are reported, and so are two that differ only in surrounding whitespace.
ContentCollisionsWitness ==
    /\ pc = "dedup"
    /\ \E j, k \in Idx :
          /\ j < k /\ EntriesFor(duplicates.content, k) # {}
          /\ Len(At(k).content.s) > PrefixLen
          /\ At(j).content # At(k).content
    /\ \E j, k \in Idx :
          /\ j < k /\ EntriesFor(duplicates.content, k) # {}
          /\ TrimmedPrefix(j) = TrimmedPrefix(k)
          /\ RawPrefix(j) # RawPrefix(k)

\* C7: an output file is opened only after all five source files were read to
\* their end, and a run whose load raised has opened none.
NoOutputUnlessLoaded ==
    /\ opened # {} => loaded = SourceSet
    /\ error.stage \in LoadStages => opened = {}

\* A load raises after records of earlier files were collected.
NoOutputUnlessLoadedWitness ==
    /\ error.stage \in LoadStages \ {Sources[1]}
    /\ error.type \in {"ValueError", "TypeError"}
    /\ all_templates # <<>>

\* C8: the record kept for a title is the one of smallest index among the
\* records of that trimmed title with the largest viewCount + useCount.
FirstOfTies ==
    AfterDedup =>
        \A u \in Unique :
            \A j \in SameTrimmed(u) :
                (\A m \in SameTrimmed(u) : Score(m) <= Score(j)) => u <= j

\* Two records of one title tie for the largest score; the first is kept.
FirstOfTiesWitness ==
    /\ AfterDedup
    /\ \E u \in Unique :
          \E j \in SameTrimmed(u) :
              /\ u < j /\ Score(j) = Score(u)
              /\ \A m \in SameTrimmed(u) : Score(m) <= Score(u)

\* (category, title) of a is at most that of b.
CategoryTitleLeq(a, b) ==
    IF At(a).category = At(b).category
    THEN ~StrLess(At(b).title.s, At(a).title.s)
    ELSE StrLess(At(a).category.s, At(b).category.s)

OutputOrdered ==
    pc \in WriteStages =>
        \A p \in 1..(Len(unique_templates) - 1) :
            CategoryTitleLeq(unique_templates[p], unique_templates[p + 1])

SortPermutes ==
    (pc = "sort" /\ pc' # "sort") =>
        /\ Len(unique_templates') = Len(unique_templates)
        /\ \A u \in Unique :
              Cardinality({p \in 1..Len(unique_templates) : unique_templates[p] = u})
                  = Cardinality({p \in 1..Len(unique_templates') : unique_templates'[p] = u})

\* C9: the records handed to the writers are in non-decreasing order of
\* (category, title), and the sort only permutes the deduplicated records.
SortedOutput == []OutputOrdered /\ [][SortPermutes]_vars

\* The sort has moved a record in front of one loaded before it, within one
\* category and across categories.
SortedOutputWitness ==
    /\ pc = "write_csv"
    /\ \E p \in 1..(Len(unique_templates) - 1) :
          unique_templates[p] > unique_templates[p + 1]
    /\ \E p \in 1..(Len(unique_templates) - 1) :
          /\ At(unique_templates[p]).category = At(unique_templates[p + 1]).category
          /\ At(unique_templates[p]).title # At(unique_templates[p + 1]).title
    /\ \E p \in 1..(Len(unique_templates) - 1) :
          At(unique_templates[p]).category # At(unique_templates[p + 1]).category

\* C10: after the dedup pass the "titles" array has as many entries as there
\* are loaded records less unique records.
TitlesCountDropped ==
    AfterDedup =>
        Len(duplicates.titles) = Len(all_templates) - Len(unique_templates)

\* Records were dropped, one of them for a title that differs from the kept
\* one only in surrounding whitespace.
TitlesCountDroppedWitness ==
    /\ AfterDedup
    /\ Len(duplicates.titles) >= 1
    /\ \E j, k \in Idx :
          j < k /\ Trimmed(j) = Trimmed(k) /\ At(j).title # At(k).title

=============================================================================
